---- MODULE Spec2Model ----
(***************************************************************************)
(* Model of the MCP dispatch layer of aws-cloud-control:                   *)
(*   createMcp(...).process            (app/mcp/lib/create-mcp)            *)
(*   the transport adapters of POST /mcp (mcpHandler, dev.ts, the          *)
(*   development route)                                                    *)
(*   the tool contract and the zod argument schemas of the S3 tools.       *)
(*                                                                         *)
(* JSON values are tagged records; a text is a sequence of tokens (one     *)
(* token per character, or per run of characters that needs no escaping),  *)
(* so that JSON.stringify and JSON.parse are real conversions.             *)
(***************************************************************************)
EXTENDS Integers, Sequences, FiniteSets, TLC

(***************************************************************************)
(* Bounds of the model.                                                    *)
(***************************************************************************)
\* longest registry (number of registered tools)
MaxTools == 2
\* the largest number of requests in flight at once
MaxInFlight == 2
\* the longest an SDK call or a late timer takes, in half seconds
MaxLatencyTicks == 1

\* the number of services a services object mentions
MaxMentioned == 2

(***************************************************************************)
(* JSON values.                                                            *)
(***************************************************************************)
\* a property that is missing / the JavaScript value undefined
Absent == [t |-> "absent"]
JNull == [t |-> "null"]
JBool(b) == [t |-> "bool", b |-> b]
JNum(n) == [t |-> "num", n |-> n]
\* s: sequence of tokens
JStr(s) == [t |-> "str", s |-> s]
\* a: sequence of values
JArr(a) == [t |-> "arr", a |-> a]
\* o: sequence of members [k |-> key tokens, v |-> value], in insertion order
JObj(o) == [t |-> "obj", o |-> o]
\* a string of one token
S(tok) == JStr(<<tok>>)
\* a member whose key is one token
KV(key, v) == [k |-> <<key>>, v |-> v]

RECURSIVE Lookup(_, _, _)
Lookup(o, key, i) ==
  IF i > Len(o) THEN Absent
  ELSE IF o[i].k = <<key>> THEN o[i].v
  ELSE Lookup(o, key, i + 1)

\* obj.key (undefined when obj is not an object or has no such property)
Get(obj, key) == IF obj.t = "obj" THEN Lookup(obj.o, key, 1) ELSE Absent

\* members whose value is undefined are not serialized and not kept
Members(o) == SelectSeq(o, LAMBDA m : m.v # Absent)

\* the numbers the model writes and reads
NumSet == {0, 1, 2, 1000, 1001, 1048576, 2097152}

Quote == "\""
Backslash == "\\"
Newline == "\n"
Space == " "

RECURSIVE Escape(_)
Escape(s) ==
  IF s = <<>> THEN <<>>
  ELSE (IF Head(s) \in {Quote, Backslash} THEN <<Backslash, Head(s)>>
        ELSE <<Head(s)>>) \o Escape(Tail(s))

QuoteString(s) == <<Quote>> \o Escape(s) \o <<Quote>>

\* line break and indentation of JSON.stringify(value, null, indent)
Indent(indent, depth) ==
  IF indent = 0 THEN <<>>
  ELSE <<Newline>> \o [i \in 1..(indent * depth) |-> Space]

RECURSIVE Stringify(_, _, _), StringifyItems(_, _, _, _), StringifyMembers(_, _, _, _)
\* JSON.stringify(v, null, indent), at nesting depth
Stringify(v, indent, depth) ==
  CASE v.t = "null" -> <<"null">>
    [] v.t = "bool" -> IF v.b THEN <<"true">> ELSE <<"false">>
    [] v.t = "num" -> <<ToString(v.n)>>
    [] v.t = "str" -> QuoteString(v.s)
    [] v.t = "arr" ->
         IF v.a = <<>> THEN <<"[", "]">>
         ELSE <<"[">> \o StringifyItems(v.a, 1, indent, depth + 1)
                \o Indent(indent, depth) \o <<"]">>
    [] v.t = "obj" ->
         IF Members(v.o) = <<>> THEN <<"{", "}">>
         ELSE <<"{">> \o StringifyMembers(Members(v.o), 1, indent, depth + 1)
                \o Indent(indent, depth) \o <<"}">>

StringifyItems(a, i, indent, depth) ==
  IF i > Len(a) THEN <<>>
  ELSE (IF i > 1 THEN <<",">> ELSE <<>>) \o Indent(indent, depth)
       \o Stringify(IF a[i] = Absent THEN JNull ELSE a[i], indent, depth)
       \o StringifyItems(a, i + 1, indent, depth)

StringifyMembers(o, i, indent, depth) ==
  IF i > Len(o) THEN <<>>
  ELSE (IF i > 1 THEN <<",">> ELSE <<>>) \o Indent(indent, depth)
       \o QuoteString(o[i].k) \o <<":">>
       \o (IF indent = 0 THEN <<>> ELSE <<Space>>)
       \o Stringify(o[i].v, indent, depth)
       \o StringifyMembers(o, i + 1, indent, depth)

(***************************************************************************)
(* JSON.parse: a recursive-descent parser over the tokens.  Every          *)
(* operator returns [ok, v, i]: success, the value, the next position.     *)
(***************************************************************************)
Fail == [ok |-> FALSE, v |-> JNull, i |-> 0]
Ok(v, i) == [ok |-> TRUE, v |-> v, i |-> i]
Tok(txt, i) == IF i >= 1 /\ i <= Len(txt) THEN txt[i] ELSE "<eof>"

RECURSIVE SkipWs(_, _)
SkipWs(txt, i) ==
  IF Tok(txt, i) \in {Newline, Space} THEN SkipWs(txt, i + 1) ELSE i

RECURSIVE ParseChars(_, _, _)
\* i is the position after the opening quote
ParseChars(txt, i, acc) ==
  LET tok == Tok(txt, i) IN
  IF tok = "<eof>" \/ tok = Newline THEN Fail
  ELSE IF tok = Quote THEN Ok(JStr(acc), i + 1)
  ELSE IF tok = Backslash THEN
    IF Tok(txt, i + 1) \in {Quote, Backslash}
    THEN ParseChars(txt, i + 2, Append(acc, txt[i + 1]))
    ELSE Fail
  ELSE ParseChars(txt, i + 1, Append(acc, tok))

RECURSIVE ParseValue(_, _), ParseItems(_, _, _), ParseMembers(_, _, _)
\* i is the position of the first token of the value
ParseValue(txt, i) ==
  LET tok == Tok(txt, i) IN
  CASE tok = "null" -> Ok(JNull, i + 1)
    [] tok = "true" -> Ok(JBool(TRUE), i + 1)
    [] tok = "false" -> Ok(JBool(FALSE), i + 1)
    [] tok = Quote -> ParseChars(txt, i + 1, <<>>)
    [] tok = "[" ->
         LET j == SkipWs(txt, i + 1) IN
         IF Tok(txt, j) = "]" THEN Ok(JArr(<<>>), j + 1)
         ELSE ParseItems(txt, j, <<>>)
    [] tok = "{" ->
         LET j == SkipWs(txt, i + 1) IN
         IF Tok(txt, j) = "}" THEN Ok(JObj(<<>>), j + 1)
         ELSE ParseMembers(txt, j, <<>>)
    [] OTHER -> IF \E n \in NumSet : ToString(n) = tok
                THEN Ok(JNum(CHOOSE n \in NumSet : ToString(n) = tok), i + 1)
                ELSE Fail

ParseItems(txt, i, acc) ==
  LET r == ParseValue(txt, i) IN
  IF ~r.ok THEN Fail
  ELSE LET j == SkipWs(txt, r.i) IN
       IF Tok(txt, j) = "," THEN ParseItems(txt, SkipWs(txt, j + 1), Append(acc, r.v))
       ELSE IF Tok(txt, j) = "]" THEN Ok(JArr(Append(acc, r.v)), j + 1)
       ELSE Fail

ParseMembers(txt, i, acc) ==
  IF Tok(txt, i) # Quote THEN Fail
  ELSE LET key == ParseChars(txt, i + 1, <<>>) IN
       IF ~key.ok THEN Fail
       ELSE LET c == SkipWs(txt, key.i) IN
            IF Tok(txt, c) # ":" THEN Fail
            ELSE LET r == ParseValue(txt, SkipWs(txt, c + 1)) IN
                 IF ~r.ok THEN Fail
                 ELSE LET j == SkipWs(txt, r.i)
                          m == [k |-> key.v.s, v |-> r.v]
                      IN IF Tok(txt, j) = ","
                         THEN ParseMembers(txt, SkipWs(txt, j + 1), Append(acc, m))
                         ELSE IF Tok(txt, j) = "}" THEN Ok(JObj(Append(acc, m)), j + 1)
                         ELSE Fail

\* JSON.parse(txt): [ok |-> FALSE] when it would throw a SyntaxError
Parse(txt) ==
  LET r == ParseValue(txt, SkipWs(txt, 1)) IN
  IF r.ok /\ SkipWs(txt, r.i) = Len(txt) + 1 THEN [ok |-> TRUE, v |-> r.v]
  ELSE [ok |-> FALSE, v |-> JNull]

(***************************************************************************)
(* The tool contract (tool.ts) and zod object schemas.  A schema is the    *)
(* sequence of its fields in declaration order.                            *)
(***************************************************************************)

\* z.string() / z.number() with .min .max .optional .default
Field(key, type) ==
  [k |-> key, type |-> type, optional |-> FALSE,
   hasMin |-> FALSE, min |-> 0, hasMax |-> FALSE, max |-> 0,
   hasDefault |-> FALSE, default |-> 0]
Optional(f) == [f EXCEPT !.optional = TRUE]
Min(f, n) == [f EXCEPT !.hasMin = TRUE, !.min = n]
Max(f, n) == [f EXCEPT !.hasMax = TRUE, !.max = n]
Default(f, n) == [f EXCEPT !.hasDefault = TRUE, !.default = n]

\* tool({name, description, args, run}); hasArgs is FALSE when args is omitted
Tool(name, description, hasArgs, args) ==
  [name |-> name, description |-> description, hasArgs |-> hasArgs, args |-> args]

MaxKeysMin == 1
MaxKeysMax == 1000
MaxSizeBytes == 1048576

ListBucketsTool ==
  Tool("aws:s3:list-buckets", "List all S3 buckets in the account", FALSE, <<>>)

ListObjectsTool ==
  Tool("aws:s3:list-objects", "List objects in an S3 bucket", TRUE,
       << Field("bucket", "string"),
          Optional(Field("prefix", "string")),
          Optional(Max(Min(Field("maxKeys", "number"), MaxKeysMin), MaxKeysMax)),
          Optional(Field("continuationToken", "string")) >>)

GetObjectContentTool ==
  Tool("aws:s3:get-object-content",
       "Get content of an S3 object (use with caution for large files)", TRUE,
       << Field("bucket", "string"),
          Field("key", "string"),
          Default(Optional(Max(Field("maxSizeBytes", "number"), MaxSizeBytes)),
                  MaxSizeBytes) >>)

\* a schema of which every field is optional
ListDashboardsTool ==
  Tool("aws:cloudwatch:list-dashboards", "List CloudWatch dashboards", TRUE,
       << Optional(Field("dashboardNamePrefix", "string")),
          Optional(Field("nextToken", "string")) >>)

ToolPool == {ListBucketsTool, ListObjectsTool, GetObjectContentTool, ListDashboardsTool}

\* zod's name of the type of a value (getParsedType)
TypeName(v) ==
  CASE v.t = "absent" -> "undefined"
    [] v.t = "null" -> "null"
    [] v.t = "bool" -> "boolean"
    [] v.t = "num" -> "number"
    [] v.t = "str" -> "string"
    [] v.t = "arr" -> "array"
    [] v.t = "obj" -> "object"

InvalidTypeIssue(expected, v, path) ==
  JObj(<< KV("code", S("invalid_type")),
          KV("expected", S(expected)),
          KV("received", S(TypeName(v))),
          KV("path", JArr(path)),
          KV("message", S(IF v = Absent THEN "Required"
                          ELSE "Expected " \o expected \o ", received " \o TypeName(v))) >>)

BoundIssue(code, boundKey, bound, message, path) ==
  JObj(<< KV("code", S(code)),
          KV(boundKey, JNum(bound)),
          KV("type", S("number")),
          KV("inclusive", JBool(TRUE)),
          KV("exact", JBool(FALSE)),
          KV("message", S(message)),
          KV("path", JArr(path)) >>)

\* the value a field's schema sees: .default() replaces undefined
FieldInput(f, raw) ==
  LET v == Get(raw, f.k) IN
  IF v = Absent /\ f.hasDefault THEN JNum(f.default) ELSE v

\* the issues of one field, in the order zod reports them
FieldIssues(f, raw) ==
  LET v == FieldInput(f, raw)
      path == <<S(f.k)>>
  IN IF v = Absent /\ f.optional THEN <<>>
     ELSE IF TypeName(v) # f.type THEN <<InvalidTypeIssue(f.type, v, path)>>
     ELSE IF f.type # "number" THEN <<>>
     ELSE (IF f.hasMin /\ v.n < f.min
           THEN <<BoundIssue("too_small", "minimum", f.min,
                             "Number must be greater than or equal to " \o ToString(f.min),
                             path)>>
           ELSE <<>>)
          \o
          (IF f.hasMax /\ v.n > f.max
           THEN <<BoundIssue("too_big", "maximum", f.max,
                             "Number must be less than or equal to " \o ToString(f.max),
                             path)>>
           ELSE <<>>)

RECURSIVE ObjectIssues(_, _, _)
ObjectIssues(schema, raw, i) ==
  IF i > Len(schema) THEN <<>>
  ELSE FieldIssues(schema[i], raw) \o ObjectIssues(schema, raw, i + 1)

RECURSIVE ObjectValue(_, _, _)
\* the output of z.object: the declared keys only, defaults filled in
ObjectValue(schema, raw, i) ==
  IF i > Len(schema) THEN <<>>
  ELSE (IF FieldInput(schema[i], raw) = Absent THEN <<>>
        ELSE <<KV(schema[i].k, FieldInput(schema[i], raw))>>)
       \o ObjectValue(schema, raw, i + 1)

\* tool.args["~standard"].validate(raw): {issues} or {value}
Validate(schema, raw) ==
  IF raw.t # "obj"
  THEN [issues |-> <<InvalidTypeIssue("object", raw, <<>>)>>, value |-> Absent]
  ELSE [issues |-> ObjectIssues(schema, raw, 1),
        value |-> JObj(ObjectValue(schema, raw, 1))]

(***************************************************************************)
(* Request bodies.  A body is a JSON object; its top-level properties are  *)
(* jsonrpc, id, method and params (Absent when missing), and extra tells   *)
(* whether it has any other top-level property.                            *)
(***************************************************************************)
Message(jsonrpc, id, method, params, extra) ==
  [jsonrpc |-> jsonrpc, id |-> id, method |-> method, params |-> params,
   extra |-> extra]

\* a body that is a JSON object, read as a message; the other bodies are
\* null, a primitive or an array
IsMessage(request) == "method" \in DOMAIN request

IsObjectOrAbsent(v) == v = Absent \/ v.t = "obj"

\* BaseRequestParamsSchema / BaseNotificationParamsSchema: a passthrough
\* object with an optional _meta object
BaseParams(params) == params.t = "obj" /\ IsObjectOrAbsent(Get(params, "_meta"))

\* a plausible slip: a schema that is not strict, so that an id is tolerated
isJSONRPCNotificationNotStrict(m) ==
  /\ IsMessage(m)
  /\ m.jsonrpc = S("2.0")
  /\ m.method.t = "str"
  /\ m.params = Absent \/ BaseParams(m.params)

\* isJSONRPCNotification: JSONRPCNotificationSchema is the strict object
\* {jsonrpc: "2.0", method: string, params?: object}
isJSONRPCNotification(m) ==
  /\ IsMessage(m)
  /\ m.jsonrpc = S("2.0")
  /\ m.method.t = "str"
  /\ m.params = Absent \/ BaseParams(m.params)
  /\ m.id = Absent
  /\ ~m.extra

InitializeRequestSchema(m) ==
  /\ m.method = S("initialize")
  /\ BaseParams(m.params)
  /\ Get(m.params, "protocolVersion").t = "str"
  /\ LET capabilities == Get(m.params, "capabilities")
         clientInfo == Get(m.params, "clientInfo")
     IN \* ClientCapabilitiesSchema
        /\ capabilities.t = "obj"
        /\ \A key \in {"experimental", "sampling", "elicitation", "roots"} :
              IsObjectOrAbsent(Get(capabilities, key))
        \* ImplementationSchema
        /\ clientInfo.t = "obj"
        /\ Get(clientInfo, "name").t = "str"
        /\ Get(clientInfo, "version").t = "str"
        /\ \/ Get(clientInfo, "title") = Absent
           \/ Get(clientInfo, "title").t = "str"

ListToolsRequestSchema(m) ==
  /\ m.method = S("tools/list")
  /\ \/ m.params = Absent
     \/ /\ BaseParams(m.params)
        /\ Get(m.params, "cursor") = Absent \/ Get(m.params, "cursor").t = "str"

CallToolRequestSchema(m) ==
  /\ m.method = S("tools/call")
  /\ BaseParams(m.params)
  /\ Get(m.params, "name").t = "str"
  /\ IsObjectOrAbsent(Get(m.params, "arguments"))

\* RequestSchema.parse(m) succeeds; otherwise it throws a ZodError
RequestSchema(m) ==
  /\ IsMessage(m)
  /\ \/ InitializeRequestSchema(m)
     \/ ListToolsRequestSchema(m)
     \/ CallToolRequestSchema(m)

(***************************************************************************)
(* createMcp(...).process                                                  *)
(***************************************************************************)
\* a plausible slip: the metadata of the other server (createMcpServer)
InitializeResultOfMcpServer ==
  JObj(<< KV("protocolVersion", S("2024-11-05")),
          KV("capabilities", JObj(<<KV("tools", JObj(<<>>))>>)),
          KV("serverInfo", JObj(<< KV("name", S("cloudcontrol")),
                                   KV("version", S("1.0.0")) >>)) >>)

InitializeResult ==
  JObj(<< KV("protocolVersion", S("2025-06-18")),
          KV("capabilities", JObj(<<KV("tools", JObj(<<>>))>>)),
          KV("serverInfo", JObj(<< KV("name", S("aws-cloudcontrol")),
                                   KV("version", S("1.0.0")) >>)) >>)

\* zodToJsonSchema(tool.args || z.object({}), "args").definitions.args
InputSchema(tool) ==
  LET required == SelectSeq(tool.args, LAMBDA f : ~f.optional /\ ~f.hasDefault)
      \* the JSON schema of one field
      FieldJsonSchema(f) ==
        JObj(<< KV("type", S(f.type)),
                KV("minimum", IF f.hasMin THEN JNum(f.min) ELSE Absent),
                KV("maximum", IF f.hasMax THEN JNum(f.max) ELSE Absent),
                KV("default", IF f.hasDefault THEN JNum(f.default) ELSE Absent) >>)
  IN
  JObj(<< KV("type", S("object")),
          KV("properties",
             JObj([i \in 1..Len(tool.args) |->
                     KV(tool.args[i].k, FieldJsonSchema(tool.args[i]))])),
          KV("required",
             IF required = <<>> THEN Absent
             ELSE JArr([i \in 1..Len(required) |-> S(required[i].k)])),
          KV("additionalProperties", JBool(FALSE)) >>)

ListedTool(tool) ==
  JObj(<< KV("name", S(tool.name)),
          KV("inputSchema", InputSchema(tool)),
          KV("description", S(tool.description)) >>)

\* a plausible slip: only the tools that declare arguments are listed
ListToolsResultWithArgsOnly(registry) ==
  LET listed == SelectSeq(registry, LAMBDA tool : tool.hasArgs) IN
  JObj(<<KV("tools", JArr([i \in 1..Len(listed) |-> ListedTool(listed[i])]))>>)

ListToolsResult(registry) ==
  JObj(<<KV("tools", JArr([i \in 1..Len(registry) |-> ListedTool(registry[i])]))>>)

RECURSIVE FindFrom(_, _, _)
FindFrom(registry, name, i) ==
  IF i > Len(registry) THEN 0
  ELSE IF S(registry[i].name) = name THEN i
  ELSE FindFrom(registry, name, i + 1)

\* a plausible slip: last-registered-wins
FindLastTool(registry, name) ==
  IF \E i \in 1..Len(registry) : S(registry[i].name) = name
  THEN CHOOSE i \in 1..Len(registry) :
         /\ S(registry[i].name) = name
         /\ \A j \in (i + 1)..Len(registry) : S(registry[j].name) # name
  ELSE 0

\* input.tools.find((tool) => tool.name === name): its index, 0 when none
FindTool(registry, name) == FindFrom(registry, name, 1)

TextContent(text) == JArr(<<JObj(<<KV("type", S("text")), KV("text", text)>>)>>)

\* a plausible slip: the first issue's message as plain text
IssuesResultFirstMessage(issues) ==
  JObj(<< KV("isError", JBool(TRUE)),
          KV("content", TextContent(Get(issues[1], "message"))) >>)

\* the value returned when validation reports issues
IssuesResult(issues) ==
  JObj(<< KV("isError", JBool(TRUE)),
          KV("content", TextContent(JStr(Stringify(JArr(issues), 0, 0)))) >>)

\* the value the .catch handler returns for a rejection with error.message
CatchResult(message) ==
  JObj(<< KV("isError", JBool(TRUE)),
          KV("content", TextContent(message)) >>)

\* the value the .then handler returns for the value it is given
ThenResult(value) ==
  JObj(<<KV("content", TextContent(JStr(Stringify(value, 2, 0))))>>)

\* tool.run(args).catch(...).then(...) once run has settled:
\* settle is [ok |-> TRUE, v |-> value] or [ok |-> FALSE, v |-> error.message]
CallToolResult(settle) ==
  ThenResult(IF settle.ok THEN settle.v ELSE CatchResult(settle.v))

SuccessEnvelope(m, result) ==
  JObj(<< KV("jsonrpc", S("2.0")), KV("id", m.id), KV("result", result) >>)

NoCall == [tool |-> 0, args |-> Absent, validation |-> "none"]

Returned(value, call) == [kind |-> "return", value |-> value, call |-> call]
Thrown(message) == [kind |-> "throw", value |-> S(message), call |-> NoCall]
Running(idx, args, validation) ==
  [kind |-> "run", value |-> Absent,
   call |-> [tool |-> idx, args |-> args, validation |-> validation]]

\* a plausible slip: the issues are not looked at and run gets the raw arguments
ValidateAndRunIgnoringIssues(m, idx, tool, args) ==
  Running(idx, args, IF tool.hasArgs THEN "passed" ELSE "none")

\* a plausible slip: the arguments are validated but run gets the raw object
ValidateAndRunWithRawArguments(m, idx, tool, args) ==
  IF ~tool.hasArgs THEN Running(idx, args, "none")
  ELSE LET validated == Validate(tool.args, args) IN
       IF validated.issues # <<>>
       THEN Returned(SuccessEnvelope(m, IssuesResult(validated.issues)),
                     [tool |-> 0, args |-> Absent, validation |-> "issues"])
       ELSE Running(idx, args, "passed")

\* tools/call once the tool is found: validate the arguments when the tool
\* declares a schema, then invoke tool.run
ValidateAndRun(m, idx, tool, args) ==
  IF ~tool.hasArgs THEN Running(idx, args, "none")
  ELSE LET validated == Validate(tool.args, args) IN
       IF validated.issues # <<>>
       THEN Returned(SuccessEnvelope(m, IssuesResult(validated.issues)),
                     [tool |-> 0, args |-> Absent, validation |-> "issues"])
       ELSE Running(idx, validated.value, "passed")

\* the tools/call branch
CallTool(registry, m) ==
  LET idx == FindTool(registry, Get(m.params, "name")) IN
  IF idx = 0 THEN Thrown("tool not found")
  ELSE ValidateAndRun(m, idx, registry[idx], Get(m.params, "arguments"))

\* process(message) up to the point where it returns, throws, or has
\* invoked tool.run and waits for it
ProcessStart(registry, m) ==
  IF isJSONRPCNotification(m) THEN [kind |-> "null", value |-> Absent, call |-> NoCall]
  ELSE IF ~RequestSchema(m) THEN Thrown("ZodError")
  ELSE IF m.method = S("initialize")
  THEN Returned(SuccessEnvelope(m, InitializeResult), NoCall)
  ELSE IF m.method = S("tools/list")
  THEN Returned(SuccessEnvelope(m, ListToolsResult(registry)), NoCall)
  ELSE CallTool(registry, m)

\* process(message) after tool.run has settled
ProcessFinish(m, settle) ==
  [kind |-> "return", value |-> SuccessEnvelope(m, CallToolResult(settle))]

(***************************************************************************)
(* Transport adapters of POST /mcp.                                        *)
(***************************************************************************)

\* a plausible slip: the code of the failure table's "unknown method" row
MethodNotFoundError(m) ==
  JObj(<< KV("jsonrpc", S("2.0")),
          KV("id", IF IsMessage(m) THEN m.id ELSE Absent),
          KV("error", JObj(<< KV("code", JNum(-32601)),
                              KV("message", S("Method not found")) >>)) >>)

\* the envelope both catch blocks build
InternalServerError(m) ==
  JObj(<< KV("jsonrpc", S("2.0")),
          KV("id", IF IsMessage(m) THEN m.id ELSE Absent),
          KV("error", JObj(<< KV("code", JNum(-32602)),
                              KV("message", S("Internal Server Error")) >>)) >>)

NoContent == JObj(<<KV("statusCode", JNum(204))>>)

\* mcpHandler: returns the handler's return value; in the catch block
\* req.body.id throws a TypeError when the body is null
mcpHandler(m, processed) ==
  IF processed.kind = "throw"
  THEN IF m = JNull THEN [kind |-> "uncaught", value |-> S("TypeError")]
       ELSE [kind |-> "return", value |-> InternalServerError(m)]
  ELSE IF processed.kind = "null" THEN [kind |-> "return", value |-> NoContent]
  ELSE [kind |-> "return", value |-> processed.value]

\* dev.ts: answers with c.json(value); in the catch block body.id throws a
\* TypeError when the body is null
devApp(m, processed) ==
  IF processed.kind = "throw"
  THEN IF m = JNull THEN [kind |-> "uncaught", value |-> S("TypeError")]
       ELSE [kind |-> "json", value |-> InternalServerError(m)]
  ELSE IF processed.kind = "null" THEN [kind |-> "json", value |-> NoContent]
  ELSE [kind |-> "json", value |-> processed.value]

\* the development server of mcp-routes.ts: no try/catch around process
developmentApp(m, processed) ==
  IF processed.kind = "throw" THEN [kind |-> "uncaught", value |-> processed.value]
  ELSE IF processed.kind = "null" THEN [kind |-> "json", value |-> NoContent]
  ELSE [kind |-> "json", value |-> processed.value]

\* the HTTP status of an answer: c.json(value) answers 200; the object
\* mcpHandler returns carries its own statusCode; an uncaught error is a 500
Status(answer) ==
  CASE answer.kind = "json" -> 200
    [] answer.kind = "return" ->
         IF Get(answer.value, "statusCode").t = "num"
         THEN Get(answer.value, "statusCode").n ELSE 200
    [] OTHER -> 500

\* whether the answer carries a JSON body
HasJsonBody(answer) ==
  \/ answer.kind = "json"
  \/ answer.kind = "return" /\ Get(answer.value, "statusCode") = Absent

Respond(a, m, processed) ==
  CASE a = "mcpHandler" -> mcpHandler(m, processed)
    [] a = "devApp" -> devApp(m, processed)
    [] a = "developmentApp" -> developmentApp(m, processed)

(***************************************************************************)
(* The inputs the model draws from.                                        *)
(***************************************************************************)
Obj1(k1, v1) == JObj(<<KV(k1, v1)>>)
Obj2(k1, v1, k2, v2) == JObj(<<KV(k1, v1), KV(k2, v2)>>)
Obj3(k1, v1, k2, v2, k3, v3) == JObj(<<KV(k1, v1), KV(k2, v2), KV(k3, v3)>>)

\* the jsonrpc and id members of a message: any id with jsonrpc "2.0", and
\* another or no jsonrpc with the id 1
Envelopes ==
  {[jsonrpc |-> S("2.0"), id |-> i] : i \in {Absent, JNum(1), S("invalid"), JNull}}
    \cup {[jsonrpc |-> v, id |-> JNum(1)] : v \in {S("1.0"), Absent}}

InitializeParams ==
  { Absent,
    Obj3("protocolVersion", S("2025-06-18"), "capabilities", JObj(<<>>),
         "clientInfo", Obj2("name", S("test-client"), "version", S("1.0.0"))),
    Obj3("protocolVersion", S("2024-11-05"),
         "capabilities", Obj1("roots", Obj1("listChanged", JBool(TRUE))),
         "clientInfo", Obj2("name", S("other-client"), "version", S("2.0.0"))) }

Arguments ==
  { Absent,
    JObj(<<>>),
    Obj1("bucket", S("b")),
    Obj1("bucket", JNum(1)),
    Obj2("bucket", S("b"), "maxKeys", JNum(MaxKeysMax)),
    Obj2("bucket", S("b"), "maxKeys", JNum(MaxKeysMax + 1)),
    Obj2("bucket", S("b"), "key", S("k")),
    Obj3("bucket", S("b"), "key", S("k"), "maxSizeBytes", JNum(2 * MaxSizeBytes)),
    JNum(1) }

Requests ==
  {Message(e.jsonrpc, e.id, S("initialize"), p, FALSE) : e \in Envelopes, p \in InitializeParams}
    \cup
  {Message(e.jsonrpc, e.id, S("tools/list"), p, FALSE) : e \in Envelopes, p \in {Absent, JObj(<<>>), Obj1("cursor", S("c"))}}
    \cup
  {Message(e.jsonrpc, e.id, S("tools/call"), p, FALSE) :
     e \in Envelopes,
     p \in {Obj2("name", S(n), "arguments", a) :
              n \in {t.name : t \in ToolPool} \cup {"aws:s3:no-such-tool"},
              a \in Arguments}
             \cup {Absent, Obj1("arguments", JObj(<<>>))}}
    \cup
  {Message(e.jsonrpc, e.id, meth, Absent, FALSE) :
     e \in Envelopes, meth \in {S("invalid"), S("notifications/initialized"), Absent}}
    \cup
  {Message(S("2.0"), Absent, meth, p, TRUE) :
     meth \in {S("tools/list"), S("tools/call"), S("notifications/initialized")},
     p \in {Absent, Obj1("name", S(ListBucketsTool.name))}}

\* the parsed JSON bodies POST /mcp receives: the messages, and the bodies
\* that are not JSON objects
Bodies ==
  Requests \cup {JNull, JNum(1), S("invalid"), JBool(TRUE), JArr(<<>>)}

\* what a tool's run resolves with
RunValues ==
  { Obj2("buckets", JArr(<<>>), "count", JNum(0)),
    JArr(<<JNum(1), S("a")>>),
    JNull,
    JNum(1),
    S("done"),
    S("1"),
    JStr(<<Quote, "a", Backslash>>) }

\* the message of the Error a tool's run rejects with
RunErrors ==
  { S("NoSuchBucket"),
    JStr(<<"[", "]">>),
    JStr(<<"Object size (", "2", " bytes) exceeds maximum allowed size">>) }

RECURSIVE SeqsUpTo(_, _)
\* the sequences over set of length at most n
SeqsUpTo(set, n) ==
  IF n = 0 THEN {<<>>}
  ELSE LET shorter == SeqsUpTo(set, n - 1) IN
       shorter \cup {Append(q, x) : q \in shorter, x \in set}

\* the registries: different tools in any order, or a name registered twice,
\* once without a schema
Registries ==
  LET duplicate == Tool(ListObjectsTool.name, "duplicate", FALSE, <<>>)
  IN {q \in SeqsUpTo(ToolPool, MaxTools) :
        \A i, j \in 1..Len(q) : q[i] = q[j] => i = j}
       \cup {<<ListObjectsTool, duplicate>>, <<duplicate, ListObjectsTool>>}

(***************************************************************************)
(* The state machine: one POST /mcp at a time.                             *)
(***************************************************************************)
VARIABLES
  tools,      \* the registry given to createMcp
  pc,         \* "idle", "running" (tool.run is pending), "done"
  adapter,    \* the adapter that received the current body
  body,       \* the current request body
  call,       \* the invocation of tool.run made for the current body
  settled,    \* how that run settled
  processed,  \* what process returned or threw
  out,        \* what the adapter answered
  auth,       \* create: the password options and what the request presents
  query,      \* aws_cloudwatchlogs_query: the state of one run
  aws         \* src/aws: the last call of createAWSTools, getAWSRegion or
              \* createAWSCredentials, and how far its provider has got

\* the state of the components other than the MCP dispatcher
others == <<auth, query, aws>>

vars == <<tools, pc, adapter, body, call, settled, processed, out, others>>

\* no server built by create
NoAuth == [password |-> Absent, disableAuth |-> Absent, presented |-> Absent]

\* no run of aws_cloudwatchlogs_query
NoQuery == [pc |-> "none"]

\* nothing of src/aws was called
NoAws == [call |-> "none"]

\* the other components are not in use
NoOthers ==
  /\ auth = NoAuth
  /\ query = NoQuery
  /\ aws = NoAws

NoBody == Message(Absent, Absent, Absent, Absent, FALSE)
NoSettle == [ok |-> FALSE, v |-> Absent]
Pending == [kind |-> "pending", value |-> Absent]

Init ==
  /\ tools \in Registries
  /\ pc = "idle"
  /\ adapter = "none"
  /\ body = NoBody
  /\ call = NoCall
  /\ settled = NoSettle
  /\ processed = Pending
  /\ out = Pending
  /\ NoOthers

\* a plausible slip: tool.run is not awaited, the envelope is answered at
\* once around the pending promise (which serializes as {})
ReceiveWithoutAwait(a, m) ==
  LET start == ProcessStart(tools, m)
      early == [kind |-> "return", value |-> SuccessEnvelope(m, JObj(<<>>))]
  IN
  /\ pc = "idle"
  /\ adapter' = a
  /\ body' = m
  /\ call' = start.call
  /\ settled' = NoSettle
  /\ IF start.kind = "run"
     THEN /\ pc' = "running"
          /\ processed' = early
          /\ out' = Respond(a, m, early)
     ELSE /\ pc' = "done"
          /\ processed' = [kind |-> start.kind, value |-> start.value]
          /\ out' = Respond(a, m, [kind |-> start.kind, value |-> start.value])
  /\ UNCHANGED <<tools, others>>

\* adapter a receives body m and runs process until it returns, throws or
\* waits for tool.run
Receive(a, m) ==
  LET start == ProcessStart(tools, m) IN
  /\ pc = "idle"
  /\ adapter' = a
  /\ body' = m
  /\ call' = start.call
  /\ settled' = NoSettle
  /\ IF start.kind = "run"
     THEN /\ pc' = "running"
          /\ processed' = Pending
          /\ out' = Pending
     ELSE /\ pc' = "done"
          /\ processed' = [kind |-> start.kind, value |-> start.value]
          /\ out' = Respond(a, m, [kind |-> start.kind, value |-> start.value])
  /\ UNCHANGED <<tools, others>>

McpHandler == \E m \in Bodies : Receive("mcpHandler", m)
DevApp == \E m \in Bodies : Receive("devApp", m)
DevelopmentApp == \E m \in Bodies : Receive("developmentApp", m)

\* the pending tool.run settles; process formats the result and the adapter
\* answers
Settle(settle) ==
  /\ pc = "running"
  /\ pc' = "done"
  /\ settled' = settle
  /\ processed' = ProcessFinish(body, settle)
  /\ out' = Respond(adapter, body, ProcessFinish(body, settle))
  /\ UNCHANGED <<others, tools, adapter, body, call>>

RunResolves == \E v \in RunValues : Settle([ok |-> TRUE, v |-> v])
RunRejects == \E e \in RunErrors : Settle([ok |-> FALSE, v |-> e])

\* the answer has been sent; the server waits for the next request
Deliver ==
  /\ pc = "done"
  /\ pc' = "idle"
  /\ adapter' = "none"
  /\ body' = NoBody
  /\ call' = NoCall
  /\ settled' = NoSettle
  /\ processed' = Pending
  /\ out' = Pending
  /\ UNCHANGED <<tools, others>>

Next ==
  \/ McpHandler
  \/ DevApp
  \/ DevelopmentApp
  \/ RunResolves
  \/ RunRejects
  \/ Deliver

Spec == Init /\ [][Next]_vars

(***************************************************************************)
(* createMcpServer(...).process, the dispatcher behind the POST /mcp route *)
(* of create, with the request schemas of schemas/mcp-schemas.  The route  *)
(* hands it whatever JSON value the body holds.                            *)
(***************************************************************************)
\* id: z.union([z.string(), z.number()])
RequestId(id) == id.t \in {"str", "num"}

ServerInitializeRequestSchema(m) ==
  /\ m.jsonrpc = S("2.0")
  /\ RequestId(m.id)
  /\ m.method = S("initialize")
  /\ m.params.t = "obj"
  /\ Get(m.params, "protocolVersion").t = "str"
  /\ Get(m.params, "capabilities").t = "obj"
  /\ Get(m.params, "clientInfo").t = "obj"
  /\ Get(Get(m.params, "clientInfo"), "name").t = "str"
  /\ Get(Get(m.params, "clientInfo"), "version").t = "str"

ServerListToolsRequestSchema(m) ==
  /\ m.jsonrpc = S("2.0")
  /\ RequestId(m.id)
  /\ m.method = S("tools/list")
  /\ IsObjectOrAbsent(m.params)

ServerCallToolRequestSchema(m) ==
  /\ m.jsonrpc = S("2.0")
  /\ RequestId(m.id)
  /\ m.method = S("tools/call")
  /\ m.params.t = "obj"
  /\ Get(m.params, "name").t = "str"
  /\ IsObjectOrAbsent(Get(m.params, "arguments"))

\* RequestSchema.parse(request) does not throw
ServerRequestSchema(request) ==
  /\ IsMessage(request)
  /\ \/ ServerInitializeRequestSchema(request)
     \/ ServerListToolsRequestSchema(request)
     \/ ServerCallToolRequestSchema(request)

ServerInitializeResult ==
  JObj(<< KV("protocolVersion", S("2024-11-05")),
          KV("capabilities", JObj(<<KV("tools", JObj(<<>>))>>)),
          KV("serverInfo", JObj(<< KV("name", S("cloudcontrol")),
                                   KV("version", S("1.0.0")) >>)) >>)

\* inputSchema: tool.args ? zodToJsonSchema(tool.args) : undefined
ServerListedTool(tool) ==
  JObj(<< KV("name", S(tool.name)),
          KV("description", S(tool.description)),
          KV("inputSchema",
             IF tool.hasArgs
             THEN JObj(InputSchema(tool).o \o
                       <<KV("$schema", S("http://json-schema.org/draft-07/schema#"))>>)
             ELSE Absent) >>)

ServerListToolsResult(registry) ==
  JObj(<<KV("tools", JArr([i \in 1..Len(registry) |-> ServerListedTool(registry[i])]))>>)

\* an error envelope; data is left out when Absent
ErrorEnvelope(id, code, message, data) ==
  JObj(<< KV("jsonrpc", S("2.0")),
          KV("id", id),
          KV("error", JObj(<< KV("code", JNum(code)),
                              KV("message", message),
                              KV("data", data) >>)) >>)

\* the outer catch, entered when RequestSchema.parse throws: evaluating
\* "id" in request throws a TypeError for null and for a primitive; data is
\* the ZodError's message, of which the model keeps the name only
InvalidRequest(request) ==
  IF ~IsMessage(request) /\ request.t # "arr" THEN Thrown("TypeError")
  ELSE Returned(ErrorEnvelope(IF IsMessage(request) /\ request.id # Absent
                              THEN request.id ELSE JNum(0),
                              -32600, S("Invalid Request"), S("ZodError")),
                NoCall)

\* the tools/call branch: no validation; a tool without a schema is run
\* with {}
ServerCallTool(registry, m) ==
  LET name == Get(m.params, "name")
      idx == FindTool(registry, name)
      arguments == Get(m.params, "arguments")
  IN
  IF idx = 0
  THEN Returned(ErrorEnvelope(m.id, -32601,
                              JStr(<<"Tool not found: ">> \o name.s), Absent),
                NoCall)
  ELSE Running(idx,
               IF registry[idx].hasArgs /\ arguments # Absent
               THEN arguments ELSE JObj(<<>>),
               "none")

\* process(request) up to the point where it returns, throws, or has
\* invoked tool.run and waits for it
ServerProcessStart(registry, request) ==
  IF ~ServerRequestSchema(request) THEN InvalidRequest(request)
  ELSE IF request.method = S("initialize")
  THEN Returned(SuccessEnvelope(request, ServerInitializeResult), NoCall)
  ELSE IF request.method = S("tools/list")
  THEN Returned(SuccessEnvelope(request, ServerListToolsResult(registry)), NoCall)
  ELSE ServerCallTool(registry, request)

\* process(request) after tool.run has settled
ServerProcessFinish(m, settle) ==
  [kind |-> "return",
   value |->
     IF settle.ok
     THEN SuccessEnvelope(m,
            JObj(<<KV("content",
                      TextContent(IF settle.v.t = "str" THEN settle.v
                                  ELSE JStr(Stringify(settle.v, 0, 0))))>>))
     ELSE ErrorEnvelope(m.id, -32603,
                        JStr(<<"Tool execution failed: ">> \o settle.v.s), Absent)]

\* POST /mcp of create: c.json(await mcp.process(body)), no try/catch
createApp(result) ==
  IF result.kind = "throw" THEN [kind |-> "uncaught", value |-> result.value]
  ELSE [kind |-> "json", value |-> result.value]

\* create(input): the server with its registry and options
ServerInit ==
  /\ tools \in Registries
  /\ pc = "idle"
  /\ adapter = "none"
  /\ body = NoBody
  /\ call = NoCall
  /\ settled = NoSettle
  /\ processed = Pending
  /\ out = Pending
  /\ auth \in {[password |-> p, disableAuth |-> d, presented |-> Absent] :
                 p \in {Absent, S("your-secure-password")},
                 d \in {Absent, JBool(TRUE)}}
  /\ query = NoQuery
  /\ aws = NoAws

\* create's POST /mcp receives body and runs process until it returns,
\* throws or waits for tool.run; neither input.password nor
\* input.disableAuth is read
Create ==
  \E request \in Bodies, presented \in {Absent, S("your-secure-password")} :
    LET start == ServerProcessStart(tools, request) IN
    /\ pc = "idle"
    /\ auth' = [auth EXCEPT !.presented = presented]
    /\ adapter' = "create"
    /\ body' = request
    /\ call' = start.call
    /\ settled' = NoSettle
    /\ IF start.kind = "run"
       THEN /\ pc' = "running"
            /\ processed' = Pending
            /\ out' = Pending
       ELSE /\ pc' = "done"
            /\ processed' = [kind |-> start.kind, value |-> start.value]
            /\ out' = createApp([kind |-> start.kind, value |-> start.value])
    /\ UNCHANGED <<tools, query, aws>>

ServerSettle(settle) ==
  /\ pc = "running"
  /\ pc' = "done"
  /\ settled' = settle
  /\ processed' = ServerProcessFinish(body, settle)
  /\ out' = createApp(ServerProcessFinish(body, settle))
  /\ UNCHANGED <<others, tools, adapter, body, call>>

ServerRunResolves == \E v \in RunValues : ServerSettle([ok |-> TRUE, v |-> v])
ServerRunRejects == \E e \in RunErrors : ServerSettle([ok |-> FALSE, v |-> e])

ServerNext ==
  \/ Create
  \/ ServerRunResolves
  \/ ServerRunRejects
  \/ Deliver

ServerSpec == ServerInit /\ [][ServerNext]_vars

(***************************************************************************)
(* Concurrent requests to POST /mcp of dev.ts.  Every request is an        *)
(* invocation of the async route handler with its own body, message,       *)
(* parsed, tool and args; the invocations share the tools array only.      *)
(* An invocation gives way to the others at its awaits: the validation of  *)
(* the arguments and the run of the tool.  Here pc, adapter, body, call,   *)
(* settled, processed and out hold one value per invocation.               *)
(***************************************************************************)
Invocations == 1..MaxInFlight

\* the request bodies of the concurrent clients
ConcurrentRequests ==
  {Message(S("2.0"), JNum(i), S("tools/call"), p, FALSE) :
     i \in 1..2,
     p \in { Obj1("name", S(ListBucketsTool.name)),
             Obj2("name", S(ListObjectsTool.name), "arguments", Obj1("bucket", S("b"))),
             Obj2("name", S(ListObjectsTool.name), "arguments", JObj(<<>>)) }}
    \cup
  {Message(S("2.0"), JNum(i), meth, Absent, FALSE) :
     i \in 1..2, meth \in {S("tools/list"), S("invalid")}}

\* how the runs of the concurrent requests settle
ConcurrentSettles ==
  { [ok |-> TRUE, v |-> Obj2("buckets", JArr(<<>>), "count", JNum(0))],
    [ok |-> TRUE, v |-> S("done")],
    [ok |-> FALSE, v |-> S("NoSuchBucket")] }

ConcurrentInit ==
  /\ tools \in {<<ListBucketsTool>>, <<ListBucketsTool, ListObjectsTool>>}
  /\ pc = [p \in Invocations |-> "idle"]
  /\ adapter = [p \in Invocations |-> "none"]
  /\ body = [p \in Invocations |-> NoBody]
  /\ call = [p \in Invocations |-> NoCall]
  /\ settled = [p \in Invocations |-> NoSettle]
  /\ processed = [p \in Invocations |-> Pending]
  /\ out = [p \in Invocations |-> Pending]
  /\ NoOthers

\* process awaits tool.args["~standard"].validate(args) for this message
AwaitsValidate(registry, m) ==
  /\ ~isJSONRPCNotification(m)
  /\ RequestSchema(m)
  /\ m.method = S("tools/call")
  /\ FindTool(registry, Get(m.params, "name")) # 0
  /\ registry[FindTool(registry, Get(m.params, "name"))].hasArgs

\* invocation p goes on from where process stands for message m until it
\* returns, throws or waits for tool.run
Advance(p, m) ==
  LET start == ProcessStart(tools, m) IN
  /\ call' = [call EXCEPT ![p] = start.call]
  /\ IF start.kind = "run"
     THEN /\ pc' = [pc EXCEPT ![p] = "running"]
          /\ UNCHANGED <<processed, out>>
     ELSE /\ pc' = [pc EXCEPT ![p] = "done"]
          /\ processed' = [processed EXCEPT
                             ![p] = [kind |-> start.kind, value |-> start.value]]
          /\ out' = [out EXCEPT
                       ![p] = devApp(m, [kind |-> start.kind, value |-> start.value])]

\* a request arrives: a new invocation of the route handler
ConcurrentReceive(p, m) ==
  /\ pc[p] = "idle"
  /\ adapter' = [adapter EXCEPT ![p] = "devApp"]
  /\ body' = [body EXCEPT ![p] = m]
  /\ IF AwaitsValidate(tools, m)
     THEN /\ pc' = [pc EXCEPT ![p] = "validating"]
          /\ UNCHANGED <<call, processed, out>>
     ELSE Advance(p, m)
  /\ UNCHANGED <<others, tools, settled>>

\* a plausible slip: the message is kept in one place shared by the
\* invocations, so the continuation reads the message of the first one
ConcurrentSettleSharedMessage(p, settle) ==
  /\ pc[p] = "running"
  /\ pc' = [pc EXCEPT ![p] = "done"]
  /\ settled' = [settled EXCEPT ![p] = settle]
  /\ processed' = [processed EXCEPT ![p] = ProcessFinish(body[1], settle)]
  /\ out' = [out EXCEPT ![p] = devApp(body[1], ProcessFinish(body[1], settle))]
  /\ UNCHANGED <<others, tools, adapter, body, call>>

\* the run of invocation p settles; process formats the result and the
\* route answers
ConcurrentSettle(p, settle) ==
  /\ pc[p] = "running"
  /\ pc' = [pc EXCEPT ![p] = "done"]
  /\ settled' = [settled EXCEPT ![p] = settle]
  /\ processed' = [processed EXCEPT ![p] = ProcessFinish(body[p], settle)]
  /\ out' = [out EXCEPT ![p] = devApp(body[p], ProcessFinish(body[p], settle))]
  /\ UNCHANGED <<others, tools, adapter, body, call>>

ConcurrentArrival ==
  \E p \in Invocations, m \in ConcurrentRequests : ConcurrentReceive(p, m)

\* the validation of invocation p's arguments has settled
ConcurrentValidated ==
  \E p \in Invocations :
    /\ pc[p] = "validating"
    /\ Advance(p, body[p])
    /\ UNCHANGED <<others, tools, adapter, body, settled>>

ConcurrentRunSettles ==
  \E p \in Invocations, settle \in ConcurrentSettles : ConcurrentSettle(p, settle)

\* the answer of invocation p has been sent
ConcurrentDeliver ==
  \E p \in Invocations :
    /\ pc[p] = "done"
    /\ pc' = [pc EXCEPT ![p] = "idle"]
    /\ adapter' = [adapter EXCEPT ![p] = "none"]
    /\ body' = [body EXCEPT ![p] = NoBody]
    /\ call' = [call EXCEPT ![p] = NoCall]
    /\ settled' = [settled EXCEPT ![p] = NoSettle]
    /\ processed' = [processed EXCEPT ![p] = Pending]
    /\ out' = [out EXCEPT ![p] = Pending]
    /\ UNCHANGED <<tools, others>>

ConcurrentNext ==
  \/ ConcurrentArrival
  \/ ConcurrentValidated
  \/ ConcurrentRunSettles
  \/ ConcurrentDeliver

ConcurrentSpec == ConcurrentInit /\ [][ConcurrentNext]_vars

(***************************************************************************)
(* aws_cloudwatchlogs_query: StartQuery, then GetQueryResults polled until *)
(* a terminal status or the deadline.  query holds the run's position, its *)
(* arguments, the clock (Date.now(), in milliseconds) and what the run has *)
(* done so far.                                                            *)
(***************************************************************************)
\* how long an SDK call takes, and how late a timer fires
Latencies == {l * 500 : l \in 0..MaxLatencyTicks}

\* (args.maxWaitSeconds || 60) * 1000
maxWaitMs(args) ==
  (IF args.maxWaitSeconds = Absent THEN 60 ELSE args.maxWaitSeconds.n) * 1000

\* a plausible slip: the interval is taken for seconds
pollIntervalInSeconds(args) ==
  IF args.pollIntervalMs = Absent THEN 1000 ELSE args.pollIntervalMs.n \div 1000

\* args.pollIntervalMs || 1000
pollInterval(args) ==
  IF args.pollIntervalMs = Absent THEN 1000 ELSE args.pollIntervalMs.n

\* resultsResponse.results?.map(...) || [], where each row becomes a record:
\* record[field.field || ""] = field.value || null, for every field of it
QueryRecords(results) ==
  LET record(row) ==
        JObj([i \in 1..Len(row) |->
                [k |-> IF row[i].field = Absent THEN <<"">> ELSE row[i].field.s,
                 v |-> IF row[i].value = Absent THEN JNull ELSE row[i].value]])
  IN IF results = Absent THEN <<>>
     ELSE [i \in 1..Len(results.a) |-> record(results.a[i])]

\* the value run resolves with
QueryResult(status, results) ==
  JObj(<< KV("queryId", S("query-id")),
          KV("status", status),
          KV("statistics", Absent),
          KV("records", JArr(QueryRecords(results))),
          KV("count", JNum(Len(QueryRecords(results)))) >>)

\* run rejects: the catch block rethrows the error as a ToolError of the
\* same message
QueryRejects(q, message) ==
  [q EXCEPT !.pc = "done", !.outcome = [ok |-> FALSE, v |-> message]]

\* a plausible slip: the loop has no deadline
NextPollWithoutDeadline(q) ==
  [q EXCEPT !.pc = "polling", !.polled = TRUE]

\* the loop condition, and what follows it: the next GetQueryResults is
\* sent, or the timeout error is thrown
NextPoll(q) ==
  IF q.now - q.startTime < maxWaitMs(q.args)
  THEN [q EXCEPT !.pc = "polling", !.polled = TRUE]
  ELSE QueryRejects(q,
         JStr(<<"Query did not complete within ",
                ToString(IF q.args.maxWaitSeconds = Absent
                         THEN 60 ELSE q.args.maxWaitSeconds.n),
                " seconds">>))

\* the dispatcher's variables
dispatcher == <<tools, pc, adapter, body, call, settled, processed, out>>

\* no dispatcher is in use
NoDispatcher ==
  /\ tools = <<>>
  /\ pc = "idle"
  /\ adapter = "none"
  /\ body = NoBody
  /\ call = NoCall
  /\ settled = NoSettle
  /\ processed = Pending
  /\ out = Pending

\* run(args) is called
QueryInit ==
  /\ NoDispatcher
  /\ auth = NoAuth
  /\ aws = NoAws
  /\ query \in {[pc |-> "run", args |-> a, now |-> 0, startTime |-> 0,
                 started |-> 0, polled |-> FALSE, returned |-> FALSE,
                 returnedAt |-> 0, status |-> Absent, results |-> Absent,
                 outcome |-> Absent] :
                 a \in [logGroupNames : BOOLEAN,
                        pollIntervalMs : {Absent, JNum(500), JNum(5000)},
                        maxWaitSeconds : {Absent, JNum(1), JNum(2)}]}

\* run up to its first await: the log groups are checked and StartQuery is
\* sent
Begin ==
  /\ query.pc = "run"
  /\ query' = IF ~query.args.logGroupNames
              THEN QueryRejects(query,
                     S("Either logGroupNames or logGroupName must be provided"))
              ELSE [query EXCEPT !.pc = "starting", !.started = @ + 1]
  /\ UNCHANGED <<dispatcher, auth, aws>>

\* StartQuery returns, with or without a queryId; polling begins
StartQueryReturns ==
  \E latency \in Latencies, queryId \in {Absent, S("query-id")} :
    /\ query.pc = "starting"
    /\ query' =
         IF queryId = Absent
         THEN QueryRejects([query EXCEPT !.now = @ + latency],
                           S("Failed to start query: no queryId returned"))
         ELSE NextPoll([query EXCEPT !.now = @ + latency,
                                     !.startTime = query.now + latency])
    /\ UNCHANGED <<dispatcher, auth, aws>>

\* the SDK call rejects
SendRejects ==
  \E latency \in Latencies :
    /\ query.pc \in {"starting", "polling"}
    /\ query' = QueryRejects([query EXCEPT !.now = @ + latency],
                             S("AccessDeniedException"))
    /\ UNCHANGED <<dispatcher, auth, aws>>

\* GetQueryResults returns: a terminal status ends the run with the rows
\* of this response, any other status starts the timer and the rows are
\* not read
GetQueryResultsReturns ==
  \E latency \in Latencies,
     status \in {S("Running"), S("Complete"), S("Failed"), S("Cancelled"),
                 S("Timeout")},
     results \in { Absent,
                   JArr(<<>>),
                   JArr(<< <<[field |-> S("@timestamp"), value |-> S("t")],
                             [field |-> S("@message"), value |-> Absent]>>,
                           <<[field |-> Absent, value |-> S("v")]>> >>) } :
    /\ query.pc = "polling"
    /\ query' =
         LET q == [query EXCEPT !.now = @ + latency, !.returned = TRUE,
                                !.returnedAt = query.now + latency,
                                !.status = status]
         IN IF status \in {S("Complete"), S("Failed"), S("Cancelled")}
            THEN [q EXCEPT !.pc = "done", !.results = results,
                           !.outcome = [ok |-> TRUE, v |-> QueryResult(status, results)]]
            ELSE [q EXCEPT !.pc = "sleeping"]
    /\ UNCHANGED <<dispatcher, auth, aws>>

\* setTimeout(resolve, pollInterval) fires, and the loop goes round
TimerFires ==
  \E lateness \in Latencies :
    /\ query.pc = "sleeping"
    /\ query' = NextPoll([query EXCEPT !.now = @ + pollInterval(query.args) + lateness])
    /\ UNCHANGED <<dispatcher, auth, aws>>

QueryNext ==
  \/ Begin
  \/ StartQueryReturns
  \/ SendRejects
  \/ GetQueryResultsReturns
  \/ TimerFires

\* every SDK call returns and every timer fires
QueryLiveSpec == QueryInit /\ [][QueryNext]_vars /\ WF_vars(QueryNext)

(***************************************************************************)
(* src/aws: createAWSTools, getAWSRegion and createAWSCredentials.         *)
(***************************************************************************)
\* the services of CreateAWSToolsOptions, in the order of createAWSTools'
\* if statements
ServiceOrder ==
  <<"ec2", "s3", "iam", "lambda", "dynamodb", "sqs", "cloudwatch", "cost",
    "general">>

Services == {ServiceOrder[i] : i \in 1..Len(ServiceOrder)}

\* JavaScript's truthiness, as if (x) and x || y take it
Truthy(v) ==
  CASE v.t = "absent" -> FALSE
    [] v.t = "null" -> FALSE
    [] v.t = "bool" -> v.b
    [] v.t = "num" -> v.n # 0
    [] v.t = "str" -> \E i \in 1..Len(v.s) : v.s[i] # ""
    [] OTHER -> TRUE

\* the services createAWSTools takes when options.services is falsy
DefaultServices == [service \in Services |-> JBool(TRUE)]

\* the options createAWSTools is given: services omitted, or an object each
\* flag of which is optional
CreateAWSToolsOptions ==
  {[services |-> Absent]} \cup
  { [services |-> JObj(f)] :
      f \in { g \in [Services -> {Absent, JBool(TRUE), JBool(FALSE)}] :
                Cardinality({service \in Services : g[service] # Absent})
                  <= MaxMentioned }
             \cup {DefaultServices} }

RECURSIVE PushServices(_, _)
\* the if statements from the i-th on: tools.push(...) of what the service's
\* factory returns, its tools in its order, for each truthy flag
PushServices(services, i) ==
  IF i > Len(ServiceOrder) THEN <<>>
  ELSE (IF Truthy(services[ServiceOrder[i]])
        THEN <<[service |-> ServiceOrder[i], tool |-> 1],
               [service |-> ServiceOrder[i], tool |-> 2]>>
        ELSE <<>>)
       \o PushServices(services, i + 1)

createAWSTools(options) ==
  LET services == IF Truthy(options.services)
                  THEN options.services.o ELSE DefaultServices
  IN PushServices(services, 1)

\* an AwsCredentialIdentity; an AwsCredentialIdentityProvider is
\* [t |-> "function"]
Identity(source) == [t |-> "identity", source |-> source]

AWSConfigs ==
  {Absent} \cup
  [credentials : {Absent, Identity("explicit"), [t |-> "function"]},
   profile : {Absent, JStr(<<>>), S("dev")},
   region : {Absent, JStr(<<>>), S("us-east-1")}]

\* config?.field
OptionalChain(config, field) == IF config = Absent THEN Absent ELSE config[field]

getAWSRegion(config, env) ==
  IF Truthy(OptionalChain(config, "region")) THEN config.region
  ELSE IF Truthy(env.AWS_REGION) THEN env.AWS_REGION
  ELSE IF Truthy(env.AWS_DEFAULT_REGION) THEN env.AWS_DEFAULT_REGION
  ELSE S("eu-central-1")

createAWSCredentialsProfileFirst(config) ==
  IF Truthy(OptionalChain(config, "profile")) THEN "fromIni"
  ELSE IF Truthy(OptionalChain(config, "credentials"))
  THEN (IF config.credentials.t = "function" THEN "given" ELSE "constant")
  ELSE "chain"

\* the provider createAWSCredentials returns: the given function, a
\* function returning the given identity, fromIni's provider, or the chain
createAWSCredentials(config) ==
  IF Truthy(OptionalChain(config, "credentials"))
  THEN (IF config.credentials.t = "function" THEN "given" ELSE "constant")
  ELSE IF Truthy(OptionalChain(config, "profile")) THEN "fromIni"
  ELSE "chain"

\* what a credential source throws: an Error, or another value
SourceErrors ==
  { [t |-> "error", message |-> "Unable to find environment variable credentials."],
    [t |-> "error", message |-> "connect ETIMEDOUT 169.254.169.254:80"],
    S("timeout") }

\* error instanceof Error ? error.message : String(error)
ErrorText(error) == IF error.t = "error" THEN error.message ELSE error.s[1]

\* nothing but src/aws is in use
AwsInit ==
  /\ NoDispatcher
  /\ auth = NoAuth
  /\ query = NoQuery
  /\ aws = NoAws

CreateAWSTools ==
  \E options \in CreateAWSToolsOptions :
    /\ aws' = [call |-> "createAWSTools", options |-> options,
               tools |-> createAWSTools(options)]
    /\ UNCHANGED <<dispatcher, auth, query>>

GetAWSRegion ==
  \E config \in AWSConfigs,
     env \in [AWS_REGION : {Absent, JStr(<<>>), S("us-west-2")},
              AWS_DEFAULT_REGION : {Absent, JStr(<<>>), S("eu-west-1")}] :
    /\ aws' = [call |-> "getAWSRegion", config |-> config, env |-> env,
               region |-> getAWSRegion(config, env)]
    /\ UNCHANGED <<dispatcher, auth, query>>

CreateAWSCredentials ==
  \E config \in AWSConfigs :
    /\ aws' = [call |-> "createAWSCredentials", config |-> config,
               provider |-> createAWSCredentials(config), pc |-> "created",
               consulted |-> <<>>, errors |-> <<>>, outcome |-> Absent]
    /\ UNCHANGED <<dispatcher, auth, query>>

\* the returned provider is called: it returns the explicit identity, or
\* waits for the source it consults first
InvokeProvider ==
  /\ aws.call = "createAWSCredentials"
  /\ aws.pc = "created"
  /\ aws' =
       CASE aws.provider = "constant" ->
              [aws EXCEPT !.pc = "done", !.consulted = <<"explicit">>,
                          !.outcome = [ok |-> TRUE, v |-> aws.config.credentials]]
         [] aws.provider = "given" ->
              [aws EXCEPT !.pc = "explicit", !.consulted = <<"explicit">>]
         [] aws.provider = "fromIni" ->
              [aws EXCEPT !.pc = "profile", !.consulted = <<"profile">>]
         [] OTHER ->
              [aws EXCEPT !.pc = "env", !.consulted = <<"env">>]
  /\ UNCHANGED <<dispatcher, auth, query>>

\* the given provider or fromIni's provider settles
ProviderSettles ==
  \E ok \in BOOLEAN, error \in SourceErrors :
    /\ aws.call = "createAWSCredentials"
    /\ aws.pc \in {"explicit", "profile"}
    /\ aws' = [aws EXCEPT !.pc = "done",
                          !.outcome = IF ok THEN [ok |-> TRUE, v |-> Identity(aws.pc)]
                                      ELSE [ok |-> FALSE, v |-> error]]
    /\ UNCHANGED <<dispatcher, auth, query>>

\* fromEnv()() settles: its rejection is caught and instance metadata tried
FromEnvSettles ==
  \E ok \in BOOLEAN, envError \in SourceErrors :
    /\ aws.call = "createAWSCredentials"
    /\ aws.pc = "env"
    /\ aws' = IF ok
              THEN [aws EXCEPT !.pc = "done",
                               !.outcome = [ok |-> TRUE, v |-> Identity("env")]]
              ELSE [aws EXCEPT !.pc = "metadata",
                               !.consulted = Append(@, "metadata"),
                               !.errors = <<envError>>]
    /\ UNCHANGED <<dispatcher, auth, query>>

\* fromInstanceMetadata()() settles: its rejection is caught and one Error
\* with both messages is thrown
FromInstanceMetadataSettles ==
  \E ok \in BOOLEAN, metadataError \in SourceErrors :
    /\ aws.call = "createAWSCredentials"
    /\ aws.pc = "metadata"
    /\ aws' = IF ok
              THEN [aws EXCEPT !.pc = "done",
                               !.outcome = [ok |-> TRUE, v |-> Identity("metadata")]]
              ELSE [aws EXCEPT !.pc = "done",
                               !.errors = Append(@, metadataError),
                               !.outcome = [ok |-> FALSE,
                                            v |-> [t |-> "error",
                                                  message |-> <<"Unable to load AWS credentials. Tried environment variables and instance metadata. Original errors: ENV: ",
                                                                ErrorText(aws.errors[1]),
                                                                ", METADATA: ",
                                                                ErrorText(metadataError)>>]]]
    /\ UNCHANGED <<dispatcher, auth, query>>

AwsNext ==
  \/ CreateAWSTools
  \/ GetAWSRegion
  \/ CreateAWSCredentials
  \/ InvokeProvider
  \/ ProviderSettles
  \/ FromEnvSettles
  \/ FromInstanceMetadataSettles

AwsSpec == AwsInit /\ [][AwsNext]_vars

(***************************************************************************)
(* Vocabulary of the properties.                                           *)
(***************************************************************************)
\* the body is being processed or has been answered
Received == pc # "idle"
Answered == pc = "done"
HasId == IsMessage(body) /\ body.id # Absent
\* a JSON-RPC 2.0 request: jsonrpc "2.0" and a string or number id
WellFormed ==
  IsMessage(body) /\ body.jsonrpc = S("2.0") /\ body.id.t \in {"str", "num"}
\* the adapters that wrap process in try/catch
Catching == adapter \in {"mcpHandler", "devApp"}
RunInvoked == call.tool # 0

\* the object the adapter answered with
Response == out.value
Result == Get(Response, "result")
Error == Get(Response, "error")
\* result.content[0].text
Text ==
  LET content == Get(Result, "content") IN
  IF content.t = "arr" /\ Len(content.a) >= 1 THEN Get(content.a[1], "text") ELSE Absent

\* the tool a tools/call names (0 when the registry has none of that name)
Named == FindTool(tools, Get(body.params, "name"))
Supplied == Get(body.params, "arguments")

\* the declared schema, read as a predicate on a value: every field is
\* either left out where the schema allows it, or of the declared type and
\* within the declared bounds
Conforms(schema, v) ==
  /\ v.t = "obj"
  /\ \A i \in 1..Len(schema) :
       LET f == schema[i]
           x == Get(v, f.k)
       IN \/ x = Absent /\ (f.optional \/ f.hasDefault)
          \/ /\ x.t = (IF f.type = "number" THEN "num" ELSE "str")
             /\ f.type = "number" /\ f.hasMin => x.n >= f.min
             /\ f.type = "number" /\ f.hasMax => x.n <= f.max

\* a tools/call that reached a registered tool
CallOfRegisteredTool ==
  IsMessage(body) /\ CallToolRequestSchema(body) /\ Named # 0

IsProtocolError(code) ==
  /\ out.kind \in {"return", "json"}
  /\ Get(Response, "jsonrpc") = S("2.0")
  /\ Get(Response, "id") = body.id
  /\ Result = Absent
  /\ Get(Error, "code") = JNum(code)

(***************************************************************************)
(* C1: when the run of a registered tool rejects with an Error of message  *)
(* m, the answer to a request with an id is a success envelope whose       *)
(* result has isError = true at its top level and whose                    *)
(* result.content[0].text is exactly m; there is no error field.           *)
(***************************************************************************)
C1_RunErrorIsPlainToolError ==
  (Answered /\ WellFormed /\ RunInvoked /\ settled.v # Absent /\ ~settled.ok) =>
     /\ Error = Absent
     /\ Get(Result, "isError") = JBool(TRUE)
     /\ Text = settled.v

(***************************************************************************)
(* C2: a tools/call with an id whose name matches no registered tool is    *)
(* answered, through mcpHandler or dev.ts, with a protocol error of code   *)
(* -32601, message "Tool not found: <name>" and the request's id.          *)
(***************************************************************************)
C2_UnknownToolIsMethodNotFound ==
  (Answered /\ WellFormed /\ Catching /\ CallToolRequestSchema(body) /\ Named = 0) =>
     /\ IsProtocolError(-32601)
     /\ Get(Error, "message") = JStr(<<"Tool not found: ">> \o Get(body.params, "name").s)

(***************************************************************************)
(* C3: a tools/call with an id that names a registered tool with a schema  *)
(* and supplies arguments violating it is answered with                    *)
(* {jsonrpc: "2.0", id, result: {isError: true, content: [{type: "text",   *)
(* text}]}}, without an error field, and text parses as a non-empty JSON   *)
(* array.                                                                  *)
(***************************************************************************)
C3_Violation ==
  /\ HasId
  /\ CallOfRegisteredTool
  /\ tools[Named].hasArgs
  /\ ~Conforms(tools[Named].args, Supplied)

C3_SchemaViolationIsToolError ==
  (Received /\ C3_Violation) =>
     /\ Answered
     /\ out.kind \in {"return", "json"}
     /\ Get(Response, "jsonrpc") = S("2.0")
     /\ Get(Response, "id") = body.id
     /\ Error = Absent
     /\ Get(Result, "isError") = JBool(TRUE)
     /\ Text.t = "str"
     /\ Get(Result, "content") = TextContent(Text)
     /\ LET parsed == Parse(Text.s) IN
        parsed.ok /\ parsed.v.t = "arr" /\ Len(parsed.v.a) > 0

\* a numeric bound is exceeded, and the issues come back as a JSON array
C3_Witness ==
  /\ Answered
  /\ C3_Violation
  /\ Get(Supplied, "maxKeys") = JNum(MaxKeysMax + 1)
  /\ Parse(Text.s).ok

(***************************************************************************)
(* C4: a message without an id, whatever its method and other fields,      *)
(* makes process return null: no response, and no tool's run is invoked.   *)
(***************************************************************************)
C4_NoIdNeverAnswered ==
  (Received /\ ~HasId) =>
     /\ Answered
     /\ processed.kind = "null"
     /\ ~RunInvoked

(***************************************************************************)
(* C5: run is only ever invoked with a value that satisfies the tool's     *)
(* declared schema; when validation of the supplied arguments reports      *)
(* issues, run is not invoked.                                             *)
(***************************************************************************)
C5_RunOnlyWithValidArguments ==
  /\ (RunInvoked /\ tools[call.tool].hasArgs) =>
        /\ Conforms(tools[call.tool].args, call.args)
        /\ Conforms(tools[call.tool].args, Supplied)
  /\ (Received /\ CallOfRegisteredTool /\ tools[Named].hasArgs
        /\ ~Conforms(tools[Named].args, Supplied)) => ~RunInvoked /\ Answered

\* issues were reported for a request that names a tool with a schema
C5_Witness ==
  /\ Answered
  /\ CallOfRegisteredTool
  /\ tools[Named].hasArgs
  /\ call.validation = "issues"
  /\ ~RunInvoked

(***************************************************************************)
(* C6: when a tools/call succeeds, result.content[0].text is the string    *)
(* run returned, verbatim, or, for a value that is not a string, a JSON    *)
(* text that parses back to that value.                                    *)
(***************************************************************************)
C6_SuccessTextIsStringOrJson ==
  (Answered /\ WellFormed /\ RunInvoked /\ settled.ok) =>
     /\ Text.t = "str"
     /\ IF settled.v.t = "str" THEN Text = settled.v
        ELSE Parse(Text.s) = [ok |-> TRUE, v |-> settled.v]

(***************************************************************************)
(* C7: tools/list with an id, with or without params, lists exactly one    *)
(* entry per registered tool, in registration order, with the tool's name  *)
(* and description.                                                        *)
(***************************************************************************)
C7_ListsEveryToolInOrder ==
  (Answered /\ HasId /\ ListToolsRequestSchema(body)) =>
     LET listed == Get(Result, "tools") IN
     /\ Get(Response, "id") = body.id
     /\ listed.t = "arr"
     /\ Len(listed.a) = Len(tools)
     /\ \A i \in 1..Len(tools) :
          /\ Get(listed.a[i], "name") = S(tools[i].name)
          /\ Get(listed.a[i], "description") = S(tools[i].description)

\* a registry of two different tools, one of them without a schema, listed
C7_Witness ==
  /\ Answered /\ HasId /\ ListToolsRequestSchema(body)
  /\ Len(tools) >= 2
  /\ tools[1] # tools[2]
  /\ ~tools[1].hasArgs
  /\ Get(Result, "tools").t = "arr"

(***************************************************************************)
(* C8: the result of initialize does not depend on params.clientInfo,     *)
(* params.capabilities, params.protocolVersion or the registry: it is      *)
(* always protocolVersion "2025-06-18", capabilities {tools: {}},          *)
(* serverInfo {name: "aws-cloudcontrol", version: "1.0.0"}, with the       *)
(* request's id.                                                           *)
(***************************************************************************)
C8_InitializeIsConstant ==
  (Answered /\ HasId /\ InitializeRequestSchema(body)) =>
     /\ Get(Response, "id") = body.id
     /\ Error = Absent
     /\ Result.t = "obj"
     /\ Len(Result.o) = 3
     /\ Get(Result, "protocolVersion") = S("2025-06-18")
     /\ Get(Result, "capabilities") = Obj1("tools", JObj(<<>>))
     /\ Get(Result, "serverInfo")
          = Obj2("name", S("aws-cloudcontrol"), "version", S("1.0.0"))

\* a client that announces another protocol version and capabilities, and a
\* registry that is not empty
C8_Witness ==
  /\ Answered /\ HasId /\ InitializeRequestSchema(body)
  /\ Get(body.params, "protocolVersion") # S("2025-06-18")
  /\ Get(body.params, "capabilities") # JObj(<<>>)
  /\ Len(tools) > 0
  /\ Result # Absent

(***************************************************************************)
(* C9: a request with an id and jsonrpc "2.0" whose method is none of      *)
(* initialize, tools/list, tools/call is answered, through mcpHandler or   *)
(* dev.ts, with exactly {jsonrpc: "2.0", id, error: {code: -32602,         *)
(* message: "Internal Server Error"}}, and no run is invoked.              *)
(***************************************************************************)
C9_UnknownMethod ==
  /\ HasId
  /\ Catching
  /\ body.jsonrpc = S("2.0")
  /\ body.method \notin {S("initialize"), S("tools/list"), S("tools/call")}

C9_UnknownMethodIsInternalServerError ==
  (Received /\ C9_UnknownMethod) =>
     /\ Answered
     /\ ~RunInvoked
     /\ Response = Obj3("jsonrpc", S("2.0"), "id", body.id,
                        "error", Obj2("code", JNum(-32602),
                                      "message", S("Internal Server Error")))

C9_Witness ==
  /\ Answered
  /\ C9_UnknownMethod
  /\ body.method = S("invalid")
  /\ Error # Absent

(***************************************************************************)
(* C10: a message with an id whose jsonrpc is not "2.0", whatever its      *)
(* method and params, is answered, through mcpHandler or dev.ts, with a    *)
(* protocol error of code -32602 that echoes the id; it never gets a       *)
(* success result and no run is invoked.                                   *)
(***************************************************************************)
C10_WrongVersionIsRejected ==
  (Received /\ HasId /\ body.id.t \in {"str", "num"} /\ Catching
     /\ body.jsonrpc # S("2.0")) =>
     /\ Answered
     /\ ~RunInvoked
     /\ IsProtocolError(-32602)

(***************************************************************************)
(* C11: a message whose id is present but neither a string nor a number    *)
(* is answered, through mcpHandler or dev.ts, with a protocol error (an    *)
(* error field, no result), and no run is invoked.                         *)
(***************************************************************************)
C11_BadIdIsRejected ==
  (Received /\ HasId /\ body.id.t \notin {"str", "num"}
     /\ body.jsonrpc = S("2.0") /\ Catching) =>
     /\ Answered
     /\ ~RunInvoked
     /\ Error # Absent
     /\ Result = Absent

(***************************************************************************)
(* C12: a message that carries an id gets one response object through      *)
(* mcpHandler or dev.ts, never the no-response answer, and the response's  *)
(* id is the message's id, for success responses and for the protocol      *)
(* errors of failed request validation alike.                              *)
(***************************************************************************)
C12_IdIsAlwaysAnsweredAndEchoed ==
  /\ (Received /\ HasId) => processed.kind # "null"
  /\ (Answered /\ HasId /\ Catching) =>
        /\ out.kind \in {"return", "json"}
        /\ Response # NoContent
        /\ Get(Response, "jsonrpc") = S("2.0")
        /\ Get(Response, "id") = body.id
        /\ Result # Absent \/ Error # Absent

\* request validation failed for a message with the id "invalid"
C12_Witness ==
  /\ Answered /\ Catching
  /\ HasId
  /\ body.id = S("invalid")
  /\ processed.kind = "throw"
  /\ Error # Absent

(***************************************************************************)
(* C13: every response object answered through mcpHandler or dev.ts has    *)
(* jsonrpc "2.0" and exactly one of result and error; a tool-execution     *)
(* failure (schema violation, run throwing) is a result with isError true  *)
(* and never an error; a protocol failure (invalid request, unknown        *)
(* method, unknown tool) is an error and never a result.                   *)
(***************************************************************************)
C13_ToolFailure ==
  \/ call.validation = "issues"
  \/ RunInvoked /\ settled.v # Absent /\ ~settled.ok

C13_ErrorVersusIsError ==
  (Answered /\ WellFormed /\ Catching) =>
     /\ Get(Response, "jsonrpc") = S("2.0")
     /\ (Result = Absent) # (Error = Absent)
     /\ C13_ToolFailure => Error = Absent /\ Get(Result, "isError") = JBool(TRUE)
     /\ processed.kind = "throw" => Result = Absent /\ Error # Absent

(***************************************************************************)
(* C14: when process returns null, every adapter (mcpHandler, dev.ts, the  *)
(* development route) answers with status 204 and no JSON body, not with   *)
(* a status-200 response that carries a JSON body.                         *)
(***************************************************************************)
C14_NotificationIsNoContent ==
  (Answered /\ processed.kind = "null") =>
     /\ Status(out) = 204
     /\ ~HasJsonBody(out)

(***************************************************************************)
(* C15: the response to a tools/call is produced only after the tool's run *)
(* has settled: while run is pending nothing has been returned or          *)
(* answered, and the answer's content is what run resolved or rejected     *)
(* with.                                                                   *)
(***************************************************************************)
\* the text of the first content block of a call result
TextOf(result) ==
  LET content == Get(result, "content") IN
  IF content.t = "arr" /\ Len(content.a) >= 1 THEN Get(content.a[1], "text") ELSE Absent

C15_AnswerOnlyAfterRunSettled ==
  /\ pc = "running" => RunInvoked /\ processed = Pending /\ out = Pending
  /\ (RunInvoked /\ (processed # Pending \/ out # Pending)) =>
        /\ Answered
        /\ settled # NoSettle
        /\ Text.t = "str"
        /\ Parse(Text.s).ok
        /\ IF settled.ok THEN Parse(Text.s).v = settled.v
           ELSE TextOf(Parse(Text.s).v) = settled.v

\* two ends of one call: run is pending; run has rejected and is answered
C15_Witness ==
  /\ Answered /\ RunInvoked
  /\ settled = [ok |-> FALSE, v |-> S("NoSuchBucket")]
  /\ out # Pending

(***************************************************************************)
(* C17: a tools/call that names a tool with a schema and omits             *)
(* params.arguments is validated as {}: when every field of the schema is  *)
(* optional or has a default, validation succeeds and run is invoked with  *)
(* the defaults filled in.                                                 *)
(***************************************************************************)
C17_AbsentArgumentsAreEmptyObject ==
  (Received /\ WellFormed /\ CallOfRegisteredTool /\ tools[Named].hasArgs
     /\ Supplied = Absent /\ Conforms(tools[Named].args, JObj(<<>>))) =>
     /\ RunInvoked
     /\ call.args = Validate(tools[Named].args, JObj(<<>>)).value

(***************************************************************************)
(* C18: for a tool that declares no schema nothing is validated and run is *)
(* invoked with no arguments: the params.arguments the client supplied     *)
(* never reaches run.                                                      *)
(***************************************************************************)
C18_NoSchemaNoArguments ==
  (Received /\ WellFormed /\ CallOfRegisteredTool /\ ~tools[Named].hasArgs) =>
     /\ RunInvoked
     /\ call.validation = "none"
     /\ call.args \in {Absent, JObj(<<>>)}

(***************************************************************************)
(* C19: createMcpServer(...).process answers a request that carries an id  *)
(* and whose method is none of initialize, tools/list and tools/call with  *)
(* the protocol error -32601 "Method not found" and the request's id.      *)
(***************************************************************************)
C19_UnknownMethod ==
  /\ adapter = "create"
  /\ IsMessage(body)
  /\ body.jsonrpc = S("2.0")
  /\ RequestId(body.id)
  /\ body.method.t = "str"
  /\ body.method \notin {S("initialize"), S("tools/list"), S("tools/call")}

C19_UnknownMethodIsMethodNotFound ==
  (Answered /\ C19_UnknownMethod) =>
     /\ IsProtocolError(-32601)
     /\ Get(Error, "message") = S("Method not found")

(***************************************************************************)
(* C20: createMcpServer(...).process never throws: whatever the body, it   *)
(* returns an envelope, and for a body that fails the request schema the   *)
(* envelope is the protocol error -32600 "Invalid Request" with the body's *)
(* id when it has one and 0 otherwise.                                     *)
(***************************************************************************)
C20_ProcessNeverThrows ==
  (Answered /\ adapter = "create") =>
     /\ processed.kind = "return"
     /\ Get(processed.value, "jsonrpc") = S("2.0")
     /\ ~ServerRequestSchema(body) =>
          /\ Get(processed.value, "result") = Absent
          /\ Get(Get(processed.value, "error"), "code") = JNum(-32600)
          /\ Get(Get(processed.value, "error"), "message") = S("Invalid Request")
          /\ Get(processed.value, "id") =
               (IF IsMessage(body) /\ body.id # Absent THEN body.id ELSE JNum(0))

(***************************************************************************)
(* C16: with several requests in flight and their validations and runs     *)
(* completing in any order, every answer carries the id of its own request *)
(* and is the answer that request gets when it is processed alone; a step  *)
(* of one invocation changes neither the registry nor anything another     *)
(* invocation holds.                                                       *)
(***************************************************************************)
\* the answer of dev.ts to message m processed alone, its run (if any)
\* settling with settle
AnsweredAlone(registry, m, settle) ==
  LET start == ProcessStart(registry, m) IN
  IF start.kind = "run" THEN devApp(m, ProcessFinish(m, settle))
  ELSE devApp(m, [kind |-> start.kind, value |-> start.value])

C16_OwnAnswer ==
  \A p \in Invocations :
    pc[p] = "done" =>
      /\ out[p] = AnsweredAlone(tools, body[p], settled[p])
      /\ Get(out[p].value, "id") = body[p].id

C16_OneInvocationSteps ==
  /\ tools' = tools
  /\ \E p \in Invocations :
       \A q \in Invocations \ {p} :
         /\ pc'[q] = pc[q]
         /\ adapter'[q] = adapter[q]
         /\ body'[q] = body[q]
         /\ call'[q] = call[q]
         /\ settled'[q] = settled[q]
         /\ processed'[q] = processed[q]
         /\ out'[q] = out[q]

C16_ConcurrentRequestsAreIndependent ==
  []C16_OwnAnswer /\ [][C16_OneInvocationSteps]_vars

\* the second request has been answered while the run of the first one is
\* still pending
C16_Witness ==
  /\ pc[1] = "running"
  /\ pc[2] = "done"
  /\ call[2].tool # 0
  /\ settled[2].ok
  /\ body[1].id = JNum(1)
  /\ body[2].id = JNum(2)
  /\ Get(out[2].value, "id") = JNum(2)

(***************************************************************************)
(* C21: whatever parsed body mcpHandler or the POST /mcp route of dev.ts   *)
(* is handed, the adapter does not throw: it answers with the no-content   *)
(* signal or with an object that has jsonrpc "2.0" and a result or an      *)
(* error.                                                                  *)
(***************************************************************************)
C21_AdapterNeverThrows ==
  (Answered /\ Catching) =>
     /\ out.kind \in {"return", "json"}
     /\ \/ Response = NoContent
        \/ /\ Get(Response, "jsonrpc") = S("2.0")
           /\ Result # Absent \/ Error # Absent

(***************************************************************************)
(* C22: when the validation of the supplied arguments succeeds, run is     *)
(* invoked with the value the validator returned (declared fields only,    *)
(* defaults filled in), not with the raw params.arguments object.          *)
(***************************************************************************)
C22_RunGetsValidatedValue ==
  (Received /\ RunInvoked /\ call.validation = "passed") =>
     /\ Validate(tools[call.tool].args, Supplied).issues = <<>>
     /\ call.args = Validate(tools[call.tool].args, Supplied).value

\* a default was filled in: run gets maxSizeBytes although the client sent none
C22_Witness ==
  /\ Received
  /\ RunInvoked
  /\ call.validation = "passed"
  /\ Get(Supplied, "maxSizeBytes") = Absent
  /\ Get(call.args, "maxSizeBytes") = JNum(MaxSizeBytes)
  /\ call.args # Supplied

(***************************************************************************)
(* C23: when a name is registered more than once, a tools/call with that   *)
(* name goes to the first tool of that name in registration order: its     *)
(* schema decides the validation and its run is the one invoked; a later   *)
(* tool of the same name is never invoked.                                 *)
(***************************************************************************)
\* the tools registered under the name the body calls
C23_Matches ==
  {i \in 1..Len(tools) : S(tools[i].name) = Get(body.params, "name")}

C23_FirstMatchWins ==
  (Received /\ IsMessage(body) /\ ~isJSONRPCNotification(body)
     /\ CallToolRequestSchema(body) /\ C23_Matches # {}) =>
     LET first == CHOOSE i \in C23_Matches : \A j \in C23_Matches : i <= j IN
     /\ call.tool \in {0, first}
     /\ tools[first].hasArgs =>
          /\ call.validation \in {"issues", "passed"}
          /\ RunInvoked <=> Validate(tools[first].args, Supplied).issues = <<>>
     /\ ~tools[first].hasArgs => RunInvoked /\ call.validation = "none"

\* the name is registered twice with different schemas, and the call went to
\* the first one
C23_Witness ==
  /\ Received
  /\ IsMessage(body)
  /\ Len(tools) = 2
  /\ tools[1].name = tools[2].name
  /\ tools[1].hasArgs # tools[2].hasArgs
  /\ Get(body.params, "name") = S(tools[1].name)
  /\ call.tool = 1

(***************************************************************************)
(* C24: while createMcp(...).process handles one message, the run of a     *)
(* tool T is invoked if and only if the message is a valid tools/call      *)
(* request with an id, T is the first registered tool of the called name   *)
(* and, when T declares a schema, the validation reported no issues;       *)
(* initialize, tools/list, notifications and rejected requests invoke no   *)
(* run.                                                                    *)
(***************************************************************************)
\* the body is a valid tools/call request that names a registered tool and
\* whose arguments pass the validation of the first tool of that name
C24_ValidCall ==
  /\ WellFormed
  /\ CallToolRequestSchema(body)
  /\ C23_Matches # {}
  /\ LET first == CHOOSE i \in C23_Matches : \A j \in C23_Matches : i <= j IN
     tools[first].hasArgs => Validate(tools[first].args, Supplied).issues = <<>>

C24_RunIffValidCall ==
  Received =>
     /\ RunInvoked <=> (IsMessage(body) /\ C24_ValidCall)
     /\ RunInvoked => call.tool = CHOOSE i \in C23_Matches : \A j \in C23_Matches : i <= j

(***************************************************************************)
(* C25: createMcpServer(...).process invokes a tool's run only with        *)
(* arguments that satisfy the tool's declared schema: a tools/call whose   *)
(* arguments violate the schema of the named tool does not reach run and   *)
(* is answered with a result whose isError is true.                        *)
(***************************************************************************)
C25_ServerViolation ==
  /\ adapter = "create"
  /\ IsMessage(body)
  /\ ServerCallToolRequestSchema(body)
  /\ Named # 0
  /\ tools[Named].hasArgs
  /\ ~Conforms(tools[Named].args, IF Supplied = Absent THEN JObj(<<>>) ELSE Supplied)

C25_ServerRunsOnlyValidArguments ==
  (Received /\ C25_ServerViolation) =>
     /\ ~RunInvoked
     /\ Answered
     /\ Error = Absent
     /\ Get(Result, "isError") = JBool(TRUE)

(***************************************************************************)
(* C28: when create() is given a password (and disableAuth is not set), a  *)
(* POST /mcp request that does not present that password is rejected: it   *)
(* is not handed to the dispatcher and no tool's run is invoked.           *)
(***************************************************************************)
C28_Unauthenticated ==
  /\ adapter = "create"
  /\ auth.password # Absent
  /\ auth.disableAuth # JBool(TRUE)
  /\ auth.presented # auth.password

C28_PasswordIsRequired ==
  (Received /\ C28_Unauthenticated) =>
     /\ Answered
     /\ ~RunInvoked
     /\ processed = Pending
     /\ out.kind = "rejected"

(***************************************************************************)
(* C26: aws_cloudwatchlogs_query always terminates when every SDK call     *)
(* returns and the clock advances.  Once polling has begun it ends in one  *)
(* of two ways: it resolves after a poll that saw a terminal status, or,   *)
(* maxWaitSeconds (60 when not given) after polling began, it rejects with *)
(* "Query did not complete within <maxWaitSeconds> seconds"; no poll is    *)
(* sent after the deadline.                                                *)
(***************************************************************************)
C26_Terminal == {S("Complete"), S("Failed"), S("Cancelled")}

C26_MaxWaitSeconds ==
  IF query.args.maxWaitSeconds = Absent THEN 60 ELSE query.args.maxWaitSeconds.n

C26_EndsByResultOrTimeout ==
  /\ query.pc = "polling" => query.now - query.startTime < C26_MaxWaitSeconds * 1000
  /\ (query.pc = "done" /\ query.polled
        /\ query.outcome.v # S("AccessDeniedException")) =>
       \/ query.outcome.ok /\ query.returned /\ query.status \in C26_Terminal
       \/ /\ ~query.outcome.ok
          /\ query.outcome.v = JStr(<<"Query did not complete within ",
                                      ToString(C26_MaxWaitSeconds), " seconds">>)
          /\ query.now - query.startTime >= C26_MaxWaitSeconds * 1000
          /\ query.status \notin C26_Terminal

C26_QueryTerminates ==
  <>(query.pc = "done") /\ []C26_EndsByResultOrTimeout

\* the default deadline passed while every poll reported a non-terminal status
C26_Witness ==
  /\ query.pc = "done"
  /\ query.args.maxWaitSeconds = Absent
  /\ query.returned
  /\ query.status = S("Running")
  /\ query.outcome = [ok |-> FALSE,
                      v |-> JStr(<<"Query did not complete within ", "60", " seconds">>)]

(***************************************************************************)
(* C27: aws_cloudwatchlogs_query resolves only if a GetQueryResults poll   *)
(* returned Complete, Failed or Cancelled; the status it returns is that   *)
(* poll's status and count is the number of returned records.  Between two *)
(* polls it sleeps pollIntervalMs, and StartQuery is issued exactly once,  *)
(* before the first poll.                                                  *)
(***************************************************************************)
C27_ResolvesOnlyOnTerminalStatus ==
  /\ query.started <= 1
  /\ query.polled => query.started = 1
  /\ (query.pc = "polling" /\ query.returned) =>
        query.now - query.returnedAt >=
          (IF query.args.pollIntervalMs = Absent THEN 1000
           ELSE query.args.pollIntervalMs.n)
  /\ (query.outcome # Absent /\ query.outcome.ok) =>
        /\ query.pc = "done"
        /\ query.returned
        /\ query.status \in C26_Terminal
        /\ Get(query.outcome.v, "status") = query.status
        /\ Get(query.outcome.v, "records").t = "arr"
        /\ Get(query.outcome.v, "count") =
             JNum(IF query.results = Absent THEN 0 ELSE Len(query.results.a))
        /\ Get(query.outcome.v, "count") = JNum(Len(Get(query.outcome.v, "records").a))

\* the run resolved with two records after it had slept at least once
C27_Witness ==
  /\ query.pc = "done"
  /\ query.outcome # Absent
  /\ query.outcome.ok
  /\ Get(query.outcome.v, "status") = S("Failed")
  /\ Get(query.outcome.v, "count") = JNum(2)
  /\ query.returnedAt - query.startTime >= 500


\* the services a services object f mentions
C29_Mentioned(f) == {service \in Services : f[service] # Absent}

\* f is given only to switch services off: it lists some, all with false
C29_OnlySwitchesOff(f) ==
  /\ C29_Mentioned(f) # {}
  /\ \A service \in C29_Mentioned(f) : f[service] = JBool(FALSE)

\* the flag of service in the effective services map of options
C29_Enabled(options, service) ==
  IF options.services = Absent THEN TRUE
  ELSE IF C29_OnlySwitchesOff(options.services.o)
  THEN options.services.o[service] = Absent
  ELSE options.services.o[service] = JBool(TRUE)

C29_Position(service) ==
  CHOOSE i \in 1..Len(ServiceOrder) : ServiceOrder[i] = service

\* C29: createAWSTools registers the tools of a service iff the service is
\* enabled: every service when options.services is omitted, every service
\* not mentioned when options.services lists only services with false, and
\* the services with a true flag otherwise; the tools come in the order
\* ec2, s3, iam, lambda, dynamodb, sqs, cloudwatch, cost, general.
C29_ServicesRegisteredIffEnabled ==
  aws.call = "createAWSTools" =>
    /\ \A service \in Services :
         C29_Enabled(aws.options, service)
           <=> \E i \in DOMAIN aws.tools : aws.tools[i].service = service
    /\ \A i, j \in DOMAIN aws.tools :
         i < j => C29_Position(aws.tools[i].service)
                    <= C29_Position(aws.tools[j].service)

\* a value that is given, read as "not undefined"
C30_Defined(v) == v # Absent

\* a value that is given, read as "neither undefined nor the empty string"
C30_NonEmpty(v) == v # Absent /\ v # JStr(<<>>)

\* the priority order of the credential sources and of the regions, where
\* Given(v) says that v counts as present
C30_Priority(Given(_)) ==
  /\ aws.call = "getAWSRegion" =>
       LET candidates == <<OptionalChain(aws.config, "region"),
                           aws.env.AWS_REGION, aws.env.AWS_DEFAULT_REGION>>
       IN IF \E i \in 1..3 : Given(candidates[i])
          THEN \E i \in 1..3 :
                 /\ Given(candidates[i])
                 /\ \A j \in 1..(i - 1) : ~Given(candidates[j])
                 /\ aws.region = candidates[i]
          ELSE aws.region = S("eu-central-1")
  /\ aws.call = "createAWSCredentials" =>
       LET explicit == Given(OptionalChain(aws.config, "credentials"))
           profile == Given(OptionalChain(aws.config, "profile"))
       IN /\ \A i \in DOMAIN aws.consulted :
               CASE aws.consulted[i] = "explicit" -> explicit
                 [] aws.consulted[i] = "profile" -> profile /\ ~explicit
                 [] aws.consulted[i] = "env" -> ~explicit /\ ~profile
                 [] OTHER -> /\ ~explicit /\ ~profile
                             /\ i = 2 /\ aws.consulted[1] = "env"
                             /\ Len(aws.errors) >= 1
          /\ (aws.pc = "done" /\ ~aws.outcome.ok
                /\ aws.consulted = <<"env", "metadata">>)
               => /\ Len(aws.errors) = 2
                  /\ aws.outcome.v.t = "error"
                  /\ aws.outcome.v.message[2] = ErrorText(aws.errors[1])
                  /\ aws.outcome.v.message[4] = ErrorText(aws.errors[2])

====
